---- MODULE Spec2Model ----
(***************************************************************************)
(* Model of the persistent-identifier service (package ompid).             *)
(*                                                                         *)
(* The storage engine holds three tables (topio_user, topio_asset_type,    *)
(* topio_asset).  Every request handler of src/ompid/__init__.py is an     *)
(* action; the two handlers that read and then write in separate           *)
(* transactions (register_user, register_asset_type) are split at that     *)
(* boundary so that concurrent requests interleave there.                  *)
(*                                                                         *)
(* Strings are sequences of one-character strings, so that concatenation   *)
(* (the topio ID) and the whitespace test are computed, not assumed.       *)
(***************************************************************************)
EXTENDS Integers, Sequences, FiniteSets, TLC

VARIABLES
    users,      \* rows of topio_user: set of [id, name, user_namespace]
    userSeq,    \* last value handed out by the topio_user id sequence
    types,      \* rows of topio_asset_type in creation order: [id, description]
    assets,     \* rows of topio_asset in creation order
    assetSeq,   \* last value handed out by the topio_asset id sequence
    pc,         \* per request slot: where a two-transaction handler stands
    req,        \* per request slot: the validated request body it carries
    out,        \* the response (and log effect) of the last completed step
    codec       \* a call of the identifier functions of ompid.models: its
                \* arguments, the identifier, and what topio_id_to_parts returned

vars == <<users, userSeq, types, assets, assetSeq, pc, req, out, codec>>

----------------------------------------------------------------------------
(* Bounds of the model *)

\* number of '.'-separated fields of the strings given to topio_id_to_parts
MaxFields == 5
\* largest asset id given to the identifier functions
MaxCodecId == 12

\* number of values the topio_user id sequence may hand out
MaxUserSeq == 2
\* number of values the topio_asset id sequence may hand out
MaxAssetSeq == 2

----------------------------------------------------------------------------
(* Values *)

\* Python None / SQL NULL: a token that is no string (strings hold single characters)
Null == <<"null">>

WhitespaceChars == {" ", "\t", "\n"}

\* outcome of one handler's storage accesses: all work, or the engine or the
\* connection fails at the query, at the commit, or at the refresh after it
StorageOutcomes == {"ok", "query_fails", "commit_fails", "refresh_fails"}

SeqToSet(s) == { s[i] : i \in 1..Len(s) }

\* The requests clients send.  A workload w fixes the request slots and the
\* request values explored:
\*   w.procs        request slots of the handlers that span two transactions
\*   w.users        (name, user_namespace) bodies of POST /users/register
\*   w.types        (id, description) bodies of POST /asset_types/register
\*   w.assets       bodies of POST /assets/register
\*   w.outcomes     storage outcomes
\* Identifiers asked about by the lookups are derived from these.

\* concurrent registration of users and asset types, one asset type id in use
RegistrationWorkload ==
    [procs |-> {1, 2},
     users |-> [name : { <<"n", "1">>, <<"n", "2">> },
                user_namespace : { <<"a">>, <<"a", ".", "1">>, <<"a", " ", "b">> }],
     types |-> [id : { <<"f">>, <<"f", "\t">> }, description : { Null, <<"d">> }],
     assets |-> [owner_id : 1..MaxUserSeq, asset_type : { <<"f">>, <<"g">> },
                 local_id : { <<"L">> }, description : { <<"d">> }],
     outcomes |-> StorageOutcomes]

\* registration and resolution of assets of two owners and two asset types
AssetWorkload ==
    [procs |-> {1},
     users |-> { [name |-> <<"n", "1">>, user_namespace |-> <<"a">>],
                 [name |-> <<"n", "2">>, user_namespace |-> <<"a", ".", "1">>] },
     types |-> [id : { <<"f">>, <<"2", ".", "f">> }, description : { Null }],
     assets |-> { [owner_id |-> o, asset_type |-> t, local_id |-> b[1],
                   description |-> b[2]] :
                    o \in 1..MaxUserSeq,
                    t \in { <<"f">>, <<"2", ".", "f">> },
                    b \in { <<Null, Null>>, << <<>>, Null >>, << <<"L">>, <<"d">> >> } },
     outcomes |-> StorageOutcomes]

----------------------------------------------------------------------------
(* Pure functions *)

\* re.search(r'\s', s) is not None
HasWhitespace(s) == \E i \in 1..Len(s) : s[i] \in WhitespaceChars

Digit(d) ==
    CASE d = 0 -> "0" [] d = 1 -> "1" [] d = 2 -> "2" [] d = 3 -> "3"
      [] d = 4 -> "4" [] d = 5 -> "5" [] d = 6 -> "6" [] d = 7 -> "7"
      [] d = 8 -> "8" [] d = 9 -> "9"

\* func.cast(asset_id, String): decimal text of a non-negative integer
RECURSIVE IntToStr(_)
IntToStr(n) == IF n < 10 THEN << Digit(n) >>
               ELSE IntToStr(n \div 10) \o << Digit(n % 10) >>

TopioPrefix == <<"t", "o", "p", "i", "o", ".">>

\* a slip in the concatenation: the asset id is left out
build_topio_id_without_id(owner_namespace, asset_id, asset_type) ==
    IF owner_namespace = Null THEN Null
    ELSE TopioPrefix \o owner_namespace \o <<".">> \o asset_type

\* a slip in the concatenation: asset type and asset id change places
build_topio_id_type_before_id(owner_namespace, asset_id, asset_type) ==
    IF owner_namespace = Null THEN Null
    ELSE TopioPrefix \o owner_namespace \o <<".">> \o asset_type
            \o <<".">> \o IntToStr(asset_id)

\* 'topio.' + owner_namespace + '.' + cast(asset_id, String) + '.' + asset_type
\* (SQL concatenation: NULL if the owner namespace subquery yields NULL)
build_topio_id_column_property(owner_namespace, asset_id, asset_type) ==
    IF owner_namespace = Null THEN Null
    ELSE TopioPrefix \o owner_namespace \o <<".">> \o IntToStr(asset_id)
            \o <<".">> \o asset_type

----------------------------------------------------------------------------
(* Responses.  handled = FALSE is an exception that left the handler without *)
(* being caught: the framework answers with its bare 500 and the handler    *)
(* logged nothing.                                                           *)

NoResponse == [op |-> "none"]
NoRequest == [kind |-> "none"]

Response(op, request, status, body, logged) ==
    [op |-> op, request |-> request, status |-> status, body |-> body,
     handled |-> TRUE, logged |-> logged]

\* an exception nobody catches: starlette's generic "Internal Server Error"
Unhandled(op, request) ==
    [op |-> op, request |-> request, status |-> 500,
     body |-> "Internal Server Error", handled |-> FALSE, logged |-> FALSE]

\* raise HTTPException(status_code=..., detail=str(e)) after logger.error(e)
HTTPException(op, request, status, detail) ==
    Response(op, request, status, [detail |-> detail], TRUE)

\* the request validation of FastAPI/pydantic: 422 before the handler runs
RequestValidationError(op, request) ==
    Response(op, request, 422, [detail |-> "value_error"], FALSE)

----------------------------------------------------------------------------
(* The identifier functions of ompid.models *)

\* str.split(sep): the fields between the separators, empty fields included
RECURSIVE Split(_, _)
Split(s, sep) ==
    IF \A i \in 1..Len(s) : s[i] # sep
    THEN << s >>
    ELSE LET i == CHOOSE k \in 1..Len(s) :
                      s[k] = sep /\ \A j \in 1..(k - 1) : s[j] # sep
         IN << SubSeq(s, 1, i - 1) >> \o Split(SubSeq(s, i + 1, Len(s)), sep)

\* int() first strips the whitespace around its argument
RECURSIVE Strip(_)
Strip(s) ==
    IF Len(s) > 0 /\ s[1] \in WhitespaceChars THEN Strip(Tail(s))
    ELSE IF Len(s) > 0 /\ s[Len(s)] \in WhitespaceChars
    THEN Strip(SubSeq(s, 1, Len(s) - 1))
    ELSE s

DigitChars == {"0", "1", "2", "3", "4", "5", "6", "7", "8", "9"}

DigitValue(c) ==
    CASE c = "0" -> 0 [] c = "1" -> 1 [] c = "2" -> 2 [] c = "3" -> 3
      [] c = "4" -> 4 [] c = "5" -> 5 [] c = "6" -> 6 [] c = "7" -> 7
      [] c = "8" -> 8 [] c = "9" -> 9

\* the text int() reads after stripping: what follows the optional sign
IntDigits(s) ==
    LET t == Strip(s)
    IN IF Len(t) > 0 /\ t[1] \in {"+", "-"} THEN Tail(t) ELSE t

\* int(s) returns: an optional sign, then digits, single underscores allowed
\* between digits; anything else raises ValueError
python_int_accepts(s) ==
    LET d == IntDigits(s)
    IN /\ Len(d) > 0
       /\ \A i \in 1..Len(d) :
             \/ d[i] \in DigitChars
             \/ /\ d[i] = "_"
                /\ 1 < i /\ i < Len(d)
                /\ d[i - 1] \in DigitChars /\ d[i + 1] \in DigitChars

\* the value of a digit text, underscores skipped
RECURSIVE DigitsValue(_)
DigitsValue(d) ==
    IF Len(d) = 0 THEN 0
    ELSE IF d[Len(d)] = "_" THEN DigitsValue(SubSeq(d, 1, Len(d) - 1))
    ELSE 10 * DigitsValue(SubSeq(d, 1, Len(d) - 1)) + DigitValue(d[Len(d)])

\* int(s) for a text int() accepts
python_int(s) ==
    LET t == Strip(s)
    IN IF Len(t) > 0 /\ t[1] = "-" THEN 0 - DigitsValue(IntDigits(s))
       ELSE DigitsValue(IntDigits(s))

\* what a call returns, or the exception it raises
Returns(value) == [raised |-> "", value |-> value]
Raises(e) == [raised |-> e]

\* the last two names of the returned tuple change places
topio_id_to_parts_ns_before_type(topio_id) ==
    LET fields == Split(topio_id, ".") IN
    IF Len(fields) # 4 THEN Raises("ValueError")
    ELSE IF ~python_int_accepts(fields[3]) THEN Raises("ValueError")
    ELSE Returns(<< python_int(fields[3]), fields[2], fields[4] >>)

\* topio_id_to_parts: unpack the four fields of split('.'), int() the third
topio_id_to_parts(topio_id) ==
    LET fields == Split(topio_id, ".") IN
    IF Len(fields) # 4 THEN Raises("ValueError")
    ELSE IF ~python_int_accepts(fields[3]) THEN Raises("ValueError")
    ELSE Returns(<< python_int(fields[3]), fields[4], fields[2] >>)

\* no call of the identifier functions is under way
NoParts == [owner_namespace |-> Null, asset_id |-> 0 - 1, asset_type |-> Null]
NoCall == [stage |-> "none", parts |-> NoParts, topio_id |-> Null,
           result |-> Raises("none")]

\* the fields callers put between the dots
FieldValues ==
    { <<"t", "o", "p", "i", "o">>, <<"x">>, <<"7">>, <<"-", "2">>, <<"f">>, <<>> }

RECURSIVE JoinFields(_)
JoinFields(fields) ==
    IF Len(fields) = 1 THEN fields[1]
    ELSE fields[1] \o <<".">> \o JoinFields(Tail(fields))

\* the strings given to topio_id_to_parts
DecodeInputs ==
    { JoinFields(f) : f \in UNION { [1..n -> FieldValues] : n \in 1..MaxFields } }

\* the (owner_namespace, asset_id, asset_type) an identifier is built from
EncodeInputs ==
    [owner_namespace : { <<"a">>, <<"n", "s">>, <<"a", ".", "1">>, <<>> },
     asset_id : 0..MaxCodecId,
     asset_type : { <<"f">>, <<"a">>, <<"2", ".", "f">>, <<"f", " ">> }]

\* a caller holds either the parts of an identifier or an identifier
InitCodec ==
    \/ \E p \in EncodeInputs :
          codec = [stage |-> "parts", parts |-> p, topio_id |-> Null,
                   result |-> Raises("none")]
    \/ \E s \in DecodeInputs :
          codec = [stage |-> "topio_id", parts |-> NoParts, topio_id |-> s,
                   result |-> Raises("none")]

\* the identifier is built from the parts the caller holds
call_build_topio_id ==
    /\ codec.stage = "parts"
    /\ codec' = [codec EXCEPT
                   !.stage = "topio_id",
                   !.topio_id = build_topio_id_column_property(
                                    codec.parts.owner_namespace,
                                    codec.parts.asset_id,
                                    codec.parts.asset_type)]
    /\ UNCHANGED <<users, userSeq, types, assets, assetSeq, pc, req, out>>

\* topio_id_to_parts is applied to the identifier the caller holds
call_topio_id_to_parts ==
    /\ codec.stage = "topio_id"
    /\ codec' = [codec EXCEPT
                   !.stage = "done",
                   !.result = topio_id_to_parts(codec.topio_id)]
    /\ UNCHANGED <<users, userSeq, types, assets, assetSeq, pc, req, out>>

----------------------------------------------------------------------------
(* Users *)

TopioUserORM(id, name, user_namespace) ==
    [id |-> id, name |-> name, user_namespace |-> user_namespace]

\* re.match in place of re.search: only whitespace at the start is seen
_validate_user_namespace_match(ns) == ~(Len(ns) > 0 /\ ns[1] \in WhitespaceChars)

\* TopioUserCreate._validate_user_namespace: TRUE when the value is accepted
_validate_user_namespace(ns) == ~HasWhitespace(ns)

\* unique=True left off the name column
UserUniqueViolationNamespaceOnly(name, user_namespace) ==
    \E u \in users : u.user_namespace = user_namespace

\* unique=True left off the user_namespace column
UserUniqueViolationNameOnly(name, user_namespace) ==
    \E u \in users : u.name = name

\* the unique=True columns name and user_namespace of topio_user
UserUniqueViolation(name, user_namespace) ==
    \E u \in users : u.name = name \/ u.user_namespace = user_namespace

\* the pre-check filtering on the name alone
QueryUserByNameOnly(name, user_namespace) ==
    { u \in users : u.name = name }

\* db.query(TopioUserORM).filter(and_(name == .., user_namespace == ..))
QueryUserByNameAndNamespace(name, user_namespace) ==
    { u \in users : u.name = name /\ u.user_namespace = user_namespace }

\* the query without its filter: .first() takes any stored user
QueryUserByIdNoFilter(id) == users

\* db.query(TopioUserORM).filter(TopioUserORM.id == topio_user_id)
QueryUserById(id) == { u \in users : u.id = id }

\* register_user without its try/except: the exception leaves the handler
register_user_no_except(request, e) == Unhandled("register_user", request)

\* the except clause of register_user: logger.error(e); raise HTTPException(500)
register_user_except(request, e) ==
    HTTPException("register_user", request, 500, e)

\* requests that passed the pre-check and have not yet committed
PendingUserInserts == Cardinality({ q \in DOMAIN pc : pc[q] = "ru_insert" })

\* register_user up to the pre-check: validation, query, early return
register_user_query(w, p) ==
    /\ pc[p] = "idle"
    /\ out = NoResponse
    /\ \E request \in w.users, outcome \in w.outcomes \cap {"ok", "query_fails"} :
        IF ~_validate_user_namespace(request.user_namespace)
        THEN /\ out' = RequestValidationError("register_user", request)
             /\ UNCHANGED <<pc, req>>
        ELSE IF outcome = "query_fails"
        THEN \* the query is outside any try block
             /\ out' = Unhandled("register_user", request)
             /\ UNCHANGED <<pc, req>>
        ELSE IF QueryUserByNameAndNamespace(request.name, request.user_namespace) # {}
        THEN /\ \E u \in QueryUserByNameAndNamespace(request.name,
                                                     request.user_namespace) :
                    out' = Response("register_user", request, 200, u, FALSE)
             /\ UNCHANGED <<pc, req>>
        ELSE /\ userSeq + PendingUserInserts < MaxUserSeq
             /\ pc' = [pc EXCEPT ![p] = "ru_insert"]
             /\ req' = [req EXCEPT ![p] = request]
             /\ out' = NoResponse
    /\ UNCHANGED <<users, userSeq, types, assets, assetSeq, codec>>

\* register_user from db.add to the response: add, commit, refresh
register_user_commit(w, p) ==
    /\ pc[p] = "ru_insert"
    /\ out = NoResponse
    /\ \E outcome \in w.outcomes \cap {"ok", "commit_fails", "refresh_fails"} :
        LET request == req[p]
            row == TopioUserORM(userSeq + 1, request.name, request.user_namespace)
        IN
        IF outcome = "commit_fails"
        THEN /\ out' = register_user_except(request, "OperationalError")
             /\ UNCHANGED <<users, userSeq>>
        ELSE IF UserUniqueViolation(request.name, request.user_namespace)
        THEN \* the failed INSERT has drawn its id from the sequence
             /\ userSeq' = userSeq + 1
             /\ out' = register_user_except(request, "IntegrityError")
             /\ UNCHANGED users
        ELSE /\ userSeq' = userSeq + 1
             /\ users' = users \cup {row}
             /\ out' = IF outcome = "refresh_fails"
                       THEN register_user_except(request, "OperationalError")
                       ELSE Response("register_user", request, 201, row, FALSE)
    /\ pc' = [pc EXCEPT ![p] = "idle"]
    /\ req' = [req EXCEPT ![p] = NoRequest]
    /\ UNCHANGED <<types, assets, assetSeq, codec>>

\* the user ids clients ask about
UserIdInputs == 1..MaxUserSeq

\* a lookup that stores a row for an id it did not find before answering 404
get_user_info_creating(w) ==
    /\ out = NoResponse
    /\ \E topio_user_id \in UserIdInputs,
          outcome \in w.outcomes \cap {"ok", "query_fails"} :
        LET request == [topio_user_id |-> topio_user_id] IN
        IF outcome = "query_fails"
        THEN /\ out' = HTTPException("get_user_info", request, 500, "OperationalError")
             /\ UNCHANGED users
        ELSE IF QueryUserById(topio_user_id) = {}
        THEN /\ out' = HTTPException("get_user_info", request, 404, "not found")
             /\ users' = users \cup { TopioUserORM(topio_user_id, <<>>, <<>>) }
        ELSE /\ \E u \in QueryUserById(topio_user_id) :
                    out' = Response("get_user_info", request, 200, u, FALSE)
             /\ UNCHANGED users
    /\ UNCHANGED <<userSeq, types, assets, assetSeq, pc, req, codec>>

\* GET /users/{topio_user_id}
get_user_info(w) ==
    /\ out = NoResponse
    /\ \E topio_user_id \in UserIdInputs,
          outcome \in w.outcomes \cap {"ok", "query_fails"} :
        LET request == [topio_user_id |-> topio_user_id] IN
        IF outcome = "query_fails"
        THEN out' = HTTPException("get_user_info", request, 500, "OperationalError")
        ELSE IF QueryUserById(topio_user_id) = {}
        THEN out' = HTTPException("get_user_info", request, 404, "not found")
        ELSE \E u \in QueryUserById(topio_user_id) :
                out' = Response("get_user_info", request, 200, u, FALSE)
    /\ UNCHANGED <<users, userSeq, types, assets, assetSeq, pc, req, codec>>

----------------------------------------------------------------------------
(* Asset types *)

TopioAssetTypeORM(id, description) == [id |-> id, description |-> description]

\* re.match in place of re.search: only whitespace at the start is seen
_validate_asset_type_id_match(asset_type_id) ==
    ~(Len(asset_type_id) > 0 /\ asset_type_id[1] \in WhitespaceChars)

\* TopioAssetType._validate_asset_type_id: TRUE when the value is accepted
_validate_asset_type_id(asset_type_id) == ~HasWhitespace(asset_type_id)

\* the comparison sent as '= NULL' for None: no row satisfies it
ColumnEqualsSqlNull(column, value) ==
    value # Null /\ column # Null /\ column = value

\* a string column compared with == to a Python value: '= value', or 'IS NULL'
\* for None
ColumnEquals(column, value) ==
    IF value = Null THEN column = Null ELSE column # Null /\ column = value

\* primary_key=True left off the id column
AssetTypePrimaryKeyViolationNone(id) == FALSE

\* the primary key id of topio_asset_type
AssetTypePrimaryKeyViolation(id) == \E t \in SeqToSet(types) : t.id = id

\* db.query(TopioAssetTypeORM).filter(and_(id == .., description == ..))
QueryAssetTypeByIdAndDescription(id, description) ==
    { t \in SeqToSet(types) :
        ColumnEquals(t.id, id) /\ ColumnEquals(t.description, description) }

\* the query without its filter: .first() takes any stored asset type
QueryAssetTypeByIdNoFilter(id) == SeqToSet(types)

\* db.query(TopioAssetTypeORM).filter(TopioAssetTypeORM.id == ..)
QueryAssetTypeById(id) == { t \in SeqToSet(types) : t.id = id }

\* the except clauses of register_asset_type
register_asset_type_except(request, e) ==
    HTTPException("register_asset_type", request, 500, e)

\* register_asset_type up to the pre-check: validation, query, early return
register_asset_type_query(w, p) ==
    /\ pc[p] = "idle"
    /\ out = NoResponse
    /\ \E request \in w.types, outcome \in w.outcomes \cap {"ok", "query_fails"} :
        IF ~_validate_asset_type_id(request.id)
        THEN /\ out' = RequestValidationError("register_asset_type", request)
             /\ UNCHANGED <<pc, req>>
        ELSE IF outcome = "query_fails"
        THEN /\ out' = register_asset_type_except(request, "OperationalError")
             /\ UNCHANGED <<pc, req>>
        ELSE IF QueryAssetTypeByIdAndDescription(request.id, request.description) # {}
        THEN /\ \E t \in QueryAssetTypeByIdAndDescription(request.id,
                                                          request.description) :
                    out' = Response("register_asset_type", request, 200, t, FALSE)
             /\ UNCHANGED <<pc, req>>
        ELSE /\ pc' = [pc EXCEPT ![p] = "rat_insert"]
             /\ req' = [req EXCEPT ![p] = request]
             /\ out' = NoResponse
    /\ UNCHANGED <<users, userSeq, types, assets, assetSeq, codec>>

\* register_asset_type from db.add to the response: add, commit, refresh
register_asset_type_commit(w, p) ==
    /\ pc[p] = "rat_insert"
    /\ out = NoResponse
    /\ \E outcome \in w.outcomes \cap {"ok", "commit_fails", "refresh_fails"} :
        LET request == req[p]
            row == TopioAssetTypeORM(request.id, request.description)
        IN
        IF outcome = "commit_fails"
        THEN /\ out' = register_asset_type_except(request, "OperationalError")
             /\ UNCHANGED types
        ELSE IF AssetTypePrimaryKeyViolation(request.id)
        THEN /\ out' = register_asset_type_except(request, "IntegrityError")
             /\ UNCHANGED types
        ELSE /\ types' = Append(types, row)
             /\ out' = IF outcome = "refresh_fails"
                       THEN register_asset_type_except(request, "OperationalError")
                       ELSE Response("register_asset_type", request, 201, row, FALSE)
    /\ pc' = [pc EXCEPT ![p] = "idle"]
    /\ req' = [req EXCEPT ![p] = NoRequest]
    /\ UNCHANGED <<users, userSeq, assets, assetSeq, codec>>

\* the asset type ids clients ask about
AssetTypeIdInputs(w) ==
    { t.id : t \in w.types } \cup { a.asset_type : a \in w.assets }

\* GET /asset_types/{topio_asset_type_id}
get_asset_namespace_info(w) ==
    /\ out = NoResponse
    /\ \E topio_asset_type_id \in AssetTypeIdInputs(w),
          outcome \in w.outcomes \cap {"ok", "query_fails"} :
        LET request == [topio_asset_type_id |-> topio_asset_type_id] IN
        IF outcome = "query_fails"
        THEN out' = HTTPException("get_asset_namespace_info", request, 500,
                                  "OperationalError")
        ELSE IF QueryAssetTypeById(topio_asset_type_id) = {}
        THEN out' = HTTPException("get_asset_namespace_info", request, 404,
                                  "not found")
        ELSE \E t \in QueryAssetTypeById(topio_asset_type_id) :
                out' = Response("get_asset_namespace_info", request, 200, t, FALSE)
    /\ UNCHANGED <<users, userSeq, types, assets, assetSeq, pc, req, codec>>

\* the orders in which a query without ORDER BY may deliver the given rows
Orderings(rows) ==
    { s \in [1..Cardinality(rows) -> rows] : SeqToSet(s) = rows }

\* GET /asset_types/
get_asset_types(w) ==
    /\ out = NoResponse
    /\ \E outcome \in w.outcomes \cap {"ok", "query_fails"} :
        LET request == [all |-> TRUE] IN
        IF outcome = "query_fails"
        THEN out' = HTTPException("get_asset_types", request, 500, "OperationalError")
        ELSE \E res \in Orderings(SeqToSet(types)) :
                out' = Response("get_asset_types", request, 200, res, FALSE)
    /\ UNCHANGED <<users, userSeq, types, assets, assetSeq, pc, req, codec>>

----------------------------------------------------------------------------
(* Assets *)

\* the id column filled from owner_id instead of the sequence
TopioAssetORM_id_from_owner(id, local_id, owner_id, asset_type, description) ==
    [id |-> owner_id, local_id |-> local_id, owner_id |-> owner_id,
     asset_type |-> asset_type, description |-> description]

\* the rows register_asset builds: the id comes from the sequence on insert
TopioAssetORM(id, local_id, owner_id, asset_type, description) ==
    [id |-> id, local_id |-> local_id, owner_id |-> owner_id,
     asset_type |-> asset_type, description |-> description]

\* the subquery without its where clause: the namespace of the newest user
owner_namespace_uncorrelated(a) ==
    IF users # {}
    THEN (CHOOSE u \in users : \A v \in users : v.id <= u.id).user_namespace
    ELSE Null

\* column_property owner_namespace: scalar subquery on topio_user by owner_id
owner_namespace(a) ==
    IF \E u \in users : u.id = a.owner_id
    THEN (CHOOSE u \in users : u.id = a.owner_id).user_namespace
    ELSE Null

\* column_property topio_id of a stored asset row
topio_id(a) ==
    build_topio_id_column_property(owner_namespace(a), a.id, a.asset_type)

\* response_model TopioAsset: the row's fields and its derived topio_id
TopioAsset(a) ==
    [id |-> a.id, local_id |-> a.local_id, owner_id |-> a.owner_id,
     asset_type |-> a.asset_type, description |-> a.description,
     topio_id |-> topio_id(a)]

\* ForeignKey left off the asset_type column
AssetForeignKeyViolationOwnerOnly(owner_id, asset_type) ==
    ~ \E u \in users : u.id = owner_id

\* the ForeignKey columns owner_id and asset_type of topio_asset
AssetForeignKeyViolation(owner_id, asset_type) ==
    \/ ~ \E u \in users : u.id = owner_id
    \/ ~ \E t \in SeqToSet(types) : t.id = asset_type

\* register_asset without the IntegrityError clause: the generic clause answers
register_asset_integrity_as_500(request, e) ==
    HTTPException("register_asset", request, 500, e)

\* except IntegrityError in register_asset
register_asset_except_integrity(request, e) ==
    HTTPException("register_asset", request, 400, e)

\* except Exception in register_asset
register_asset_except(request, e) ==
    HTTPException("register_asset", request, 500, e)

\* POST /assets/register
register_asset(w) ==
    /\ out = NoResponse
    /\ assetSeq < MaxAssetSeq
    /\ \E request \in w.assets,
          outcome \in w.outcomes \cap {"ok", "commit_fails", "refresh_fails"} :
        LET row == TopioAssetORM(assetSeq + 1, request.local_id, request.owner_id,
                                 request.asset_type, request.description)
        IN
        IF outcome = "commit_fails"
        THEN /\ out' = register_asset_except(request, "OperationalError")
             /\ UNCHANGED <<assets, assetSeq>>
        ELSE IF AssetForeignKeyViolation(request.owner_id, request.asset_type)
        THEN \* the failed INSERT has drawn its id from the sequence
             /\ assetSeq' = assetSeq + 1
             /\ out' = register_asset_except_integrity(request, "IntegrityError")
             /\ UNCHANGED assets
        ELSE /\ assetSeq' = assetSeq + 1
             /\ assets' = Append(assets, row)
             /\ out' = IF outcome = "refresh_fails"
                       THEN register_asset_except(request, "OperationalError")
                       ELSE Response("register_asset", request, 200,
                                     TopioAsset(row), FALSE)
    /\ UNCHANGED <<users, userSeq, types, pc, req, codec>>

\* query(TopioAssetORM).filter(owner_id == .., asset_type == .., local_id == ..)
QueryAssetByLocalId(owner_id, asset_type, local_id) ==
    { a \in SeqToSet(assets) :
        /\ a.owner_id = owner_id
        /\ ColumnEquals(a.asset_type, asset_type)
        /\ ColumnEquals(a.local_id, local_id) }

\* the query strings clients send to /assets/topio_id; local_id = Null stands
\* for a request without the local_id parameter
TopioIdQueryInputs(w) ==
    [owner_id : UserIdInputs, asset_type : { a.asset_type : a \in w.assets },
     local_id : { a.local_id : a \in w.assets } \cup { Null }]

\* GET /assets/topio_id
get_topio_id(w) ==
    /\ out = NoResponse
    /\ \E request \in TopioIdQueryInputs(w),
          outcome \in w.outcomes \cap {"ok", "query_fails"} :
        IF request.local_id = Null
        THEN out' = RequestValidationError("get_topio_id", request)
        ELSE IF outcome = "query_fails"
        THEN out' = HTTPException("get_topio_id", request, 500, "OperationalError")
        ELSE IF QueryAssetByLocalId(request.owner_id, request.asset_type,
                                    request.local_id) = {}
        THEN out' = HTTPException("get_topio_id", request, 404, "not found")
        ELSE \E asset \in QueryAssetByLocalId(request.owner_id, request.asset_type,
                                              request.local_id) :
                out' = Response("get_topio_id", request, 200, topio_id(asset), FALSE)
    /\ UNCHANGED <<users, userSeq, types, assets, assetSeq, pc, req, codec>>

\* query(TopioAssetORM).filter(topio_id == .., local_id != None)
QueryAssetByTopioId(tid) ==
    { a \in SeqToSet(assets) :
        /\ topio_id(a) # Null /\ topio_id(a) = tid
        /\ a.local_id # Null }

\* the identifiers clients ask about: every identifier the workload can mint,
\* one that was never minted, and Null for a body without topio_id
TopioIdInputs(w) ==
    { build_topio_id_column_property(u.user_namespace, id, a.asset_type) :
        u \in { x \in w.users : ~HasWhitespace(x.user_namespace) },
        id \in 1..MaxAssetSeq,
        a \in w.assets }
    \cup { Null, <<"a", ".", "b", ".", "c">> }

\* GET /assets/custom_id
get_custom_id(w) ==
    /\ out = NoResponse
    /\ \E tid \in TopioIdInputs(w),
          outcome \in w.outcomes \cap {"ok", "query_fails"} :
        LET request == [topio_id |-> tid] IN
        IF tid = Null
        THEN out' = HTTPException("get_custom_id", request, 404, "not found")
        ELSE IF outcome = "query_fails"
        THEN out' = HTTPException("get_custom_id", request, 500, "OperationalError")
        ELSE IF QueryAssetByTopioId(tid) = {}
        THEN out' = HTTPException("get_custom_id", request, 404, "not found")
        ELSE \E asset \in QueryAssetByTopioId(tid) :
                out' = Response("get_custom_id", request, 200, asset.local_id, FALSE)
    /\ UNCHANGED <<users, userSeq, types, assets, assetSeq, pc, req, codec>>

\* the query without its filter: the assets of every owner
QueryAssetsByOwnerNoFilter(user_id) == SeqToSet(assets)

\* query(TopioAssetORM).filter(TopioAssetORM.owner_id == user.user_id)
QueryAssetsByOwner(user_id) == { a \in SeqToSet(assets) : a.owner_id = user_id }

\* GET /assets/
get_users_assets(w) ==
    /\ out = NoResponse
    /\ \E user_id \in UserIdInputs,
          outcome \in w.outcomes \cap {"ok", "query_fails"} :
        LET request == [user_id |-> user_id] IN
        IF outcome = "query_fails"
        THEN out' = HTTPException("get_users_assets", request, 500, "OperationalError")
        ELSE \E res \in Orderings(QueryAssetsByOwner(user_id)) :
                out' = Response("get_users_assets", request, 200,
                                [i \in 1..Len(res) |-> TopioAsset(res[i])], FALSE)
    /\ UNCHANGED <<users, userSeq, types, assets, assetSeq, pc, req, codec>>

----------------------------------------------------------------------------
(* The service *)

\* get_db after the handler: the response has gone out, the session is closed
get_db_close ==
    /\ out # NoResponse
    /\ out' = NoResponse
    /\ UNCHANGED <<users, userSeq, types, assets, assetSeq, pc, req, codec>>

\* init_tables on an empty database: create_all makes three empty tables
InitTables(w) ==
    /\ users = {}
    /\ userSeq = 0
    /\ types = <<>>
    /\ assets = <<>>
    /\ assetSeq = 0
    /\ pc = [p \in w.procs |-> "idle"]
    /\ req = [p \in w.procs |-> NoRequest]
    /\ out = NoResponse

Service(w) ==
    \/ \E p \in w.procs : register_user_query(w, p)
    \/ \E p \in w.procs : register_user_commit(w, p)
    \/ get_user_info(w)
    \/ \E p \in w.procs : register_asset_type_query(w, p)
    \/ \E p \in w.procs : register_asset_type_commit(w, p)
    \/ get_asset_namespace_info(w)
    \/ get_asset_types(w)
    \/ register_asset(w)
    \/ get_topio_id(w)
    \/ get_custom_id(w)
    \/ get_users_assets(w)
    \/ get_db_close

Init == InitTables(RegistrationWorkload) /\ codec = NoCall
Next == Service(RegistrationWorkload)
Spec == Init /\ [][Next]_vars

InitAssets == InitTables(AssetWorkload) /\ codec = NoCall
NextAssets == Service(AssetWorkload)
SpecAssets == InitAssets /\ [][NextAssets]_vars

\* the identifier functions alone, on an empty database
InitIdentifiers == InitTables(AssetWorkload) /\ InitCodec
NextIdentifiers == call_build_topio_id \/ call_topio_id_to_parts
SpecIdentifiers == InitIdentifiers /\ [][NextIdentifiers]_vars

----------------------------------------------------------------------------
(* Properties of asset registration and resolution *)

\* the stored user with the given id (used where one is known to exist)
UserWithId(id) == CHOOSE u \in users : u.id = id

\* the identifier topio.{namespace}.{id}.{type}, written out
ExpectedTopioId(namespace, id, asset_type) ==
    <<"t", "o", "p", "i", "o">> \o <<".">> \o namespace \o <<".">>
        \o IntToStr(id) \o <<".">> \o asset_type

LastAsset == assets[Len(assets)]

\* C2: register_asset(O, T, local_id = L) followed by get_topio_id(O, T, L)
\* returns the identifier of the asset just registered, whatever was stored
\* before (storage failures of the lookup aside).
C2_ResolveAfterRegister ==
    ( /\ out.op = "get_topio_id"
      /\ out.status # 500
      /\ Len(assets) > 0
      /\ LastAsset.local_id # Null
      /\ out.request.owner_id = LastAsset.owner_id
      /\ out.request.asset_type = LastAsset.asset_type
      /\ out.request.local_id = LastAsset.local_id ) =>
        /\ out.status = 200
        /\ out.body = ExpectedTopioId(UserWithId(LastAsset.owner_id).user_namespace,
                                      LastAsset.id, LastAsset.asset_type)

\* C3: for every stored asset a with a local id, get_custom_id(a.topio_id)
\* succeeds and returns a.local_id (no storage failure).
C3_TopioIdToLocalIdRoundTrip ==
    (out.op = "get_custom_id" /\ out.status # 500) =>
        \A a \in SeqToSet(assets) :
            (a.local_id # Null /\ out.request.topio_id = TopioAsset(a).topio_id) =>
                (out.status = 200 /\ out.body = a.local_id)

\* C4: no two distinct stored assets have the same derived topio_id.
C4_TopioIdsUnique ==
    \A i, j \in 1..Len(assets) :
        i # j => TopioAsset(assets[i]).topio_id # TopioAsset(assets[j]).topio_id

----------------------------------------------------------------------------
(* Properties of user registration *)

\* the rows of topio_user holding the (name, user_namespace) pair of a request
RowsWithPair(rows, request) ==
    { u \in rows : u.name = request.name
                   /\ u.user_namespace = request.user_namespace }

\* a handler step that answered a register_user request at its pre-check: the
\* call started and ended within this step
RegisterUserAnsweredAtQuery ==
    /\ out = NoResponse
    /\ pc' = pc
    /\ out'.op = "register_user"

\* C5: register_user twice in sequence with the same (name, user_namespace):
\* the first call creates the row and answers 201, every call that starts once
\* the row exists answers 200 with that row's id and writes nothing, and there
\* is exactly one row with the pair (storage failures aside).
C5_RegisterUserIdempotent ==
    [][ /\ (out'.op = "register_user" /\ out'.status = 201) =>
              /\ RowsWithPair(users, out'.request) = {}
              /\ RowsWithPair(users', out'.request) = {out'.body}
              /\ users' = users \cup {out'.body}
        /\ \A u \in users :
              /\ ( /\ RegisterUserAnsweredAtQuery
                   /\ out'.handled
                   /\ out'.request.name = u.name
                   /\ out'.request.user_namespace = u.user_namespace ) =>
                      /\ out'.status = 200
                      /\ out'.body.id = u.id
                      /\ users' = users
                      /\ Cardinality(RowsWithPair(users', out'.request)) = 1
              /\ \A p \in DOMAIN pc :
                    (pc[p] = "idle" /\ pc'[p] = "ru_insert") =>
                        ~ ( req'[p].name = u.name
                            /\ req'[p].user_namespace = u.user_namespace )
        /\ (out'.op = "register_user" /\ out'.status = 200) =>
              /\ out'.body.name = out'.request.name
              /\ out'.body.user_namespace = out'.request.user_namespace
      ]_vars

\* C5 witness: a second call with a stored pair was answered 200 with the row
C5_Witness ==
    /\ out.op = "register_user" /\ out.status = 200
    /\ out.body \in users
    /\ out.body.name = out.request.name
    /\ out.body.user_namespace = out.request.user_namespace

\* a commit step of slot p that ran into the uniqueness constraint of its table
UserInsertHitsConstraint(p) ==
    /\ pc[p] = "ru_insert" /\ pc'[p] = "idle"
    /\ \E u \in users : u.name = req[p].name
                        \/ u.user_namespace = req[p].user_namespace

AssetTypeInsertHitsConstraint(p) ==
    /\ pc[p] = "rat_insert" /\ pc'[p] = "idle"
    /\ \E i \in 1..Len(types) : types[i].id = req[p].id

\* C6: a register_user (register_asset_type) call that passed the pre-check and
\* whose insert then meets a row committed meanwhile ends with a handled, logged
\* error response (the conflict, a 500 with a detail), never with an exception
\* leaving the handler; nothing is written, and for identical inputs exactly one
\* row is stored.
C6_InsertRaceIsHandled ==
    [][ \A p \in DOMAIN pc :
          /\ UserInsertHitsConstraint(p) =>
                /\ out'.op = "register_user" /\ out'.request = req[p]
                /\ out'.handled /\ out'.logged
                /\ out'.status = 500
                /\ out'.body.detail \in {"IntegrityError", "OperationalError"}
                /\ users' = users
                /\ RowsWithPair(users, req[p]) # {} =>
                      Cardinality(RowsWithPair(users', req[p])) = 1
          /\ AssetTypeInsertHitsConstraint(p) =>
                /\ out'.op = "register_asset_type" /\ out'.request = req[p]
                /\ out'.handled /\ out'.logged
                /\ out'.status = 500
                /\ out'.body.detail \in {"IntegrityError", "OperationalError"}
                /\ types' = types
                /\ Cardinality({ i \in 1..Len(types') : types'[i].id = req[p].id }) = 1
      ]_vars

\* C6 witness: two identical register_user calls both passed the pre-check; one
\* committed, and the other has just been answered with the conflict
C6_Witness ==
    /\ out.op = "register_user" /\ out.status = 500
    /\ out.handled /\ out.body.detail = "IntegrityError"
    /\ Cardinality(RowsWithPair(users, out.request)) = 1

\* C7: no two stored users share a name, none share a user_namespace, and no
\* stored user_namespace contains whitespace.
C7_UsersUniqueAndWhitespaceFree ==
    /\ \A u, v \in users :
          (u.name = v.name \/ u.user_namespace = v.user_namespace) => u = v
    /\ \A u \in users : \A i \in 1..Len(u.user_namespace) :
          u.user_namespace[i] \notin {" ", "\t", "\n"}

\* C7 witness: a second user has just been stored
C7_Witness ==
    /\ Cardinality(users) = 2
    /\ out.op = "register_user" /\ out.status = 201

\* a value with a whitespace character in it
ContainsWhitespace(s) == \E i \in 1..Len(s) : s[i] \in {" ", "\t", "\n"}

\* C10: register_user with whitespace in user_namespace answers 422 and writes
\* no user row, whatever the name and the state; no such request passes on to
\* the storage engine.
C10_WhitespaceNamespaceRejected ==
    [][ /\ (out'.op = "register_user"
            /\ ContainsWhitespace(out'.request.user_namespace)) =>
              /\ out'.status = 422
              /\ users' = users /\ userSeq' = userSeq
        /\ \A p \in DOMAIN pc :
              pc'[p] = "ru_insert" => ~ContainsWhitespace(req'[p].user_namespace)
      ]_vars

\* C10 witness: such a request was rejected while users are stored
C10_Witness ==
    /\ out.op = "register_user" /\ out.status = 422
    /\ ContainsWhitespace(out.request.user_namespace)
    /\ users # {}

----------------------------------------------------------------------------
(* Properties of the references of assets *)

\* the request names an owner or an asset type that is not stored
DanglingReference(request) ==
    \/ \A u \in users : u.id # request.owner_id
    \/ \A i \in 1..Len(types) : types[i].id # request.asset_type

\* C8: register_asset naming an owner_id or asset_type that is not stored
\* answers 400 (not 500) and writes no asset row (a storage failure at the
\* commit aside, which answers 500 and writes nothing either).
C8_DanglingReferenceIs400 ==
    [][ (out'.op = "register_asset" /\ DanglingReference(out'.request)) =>
            /\ assets' = assets
            /\ \/ out'.status = 400
               \/ out'.status = 500 /\ out'.body.detail = "OperationalError"
      ]_vars

\* C8 witness: an asset exists and a request with a dangling asset type got 400
C8_Witness ==
    /\ out.op = "register_asset" /\ out.status = 400
    /\ \E u \in users : u.id = out.request.owner_id
    /\ Len(assets) > 0

\* C9: every stored asset's owner_id is the id of a stored user and its
\* asset_type the id of a stored asset type.
C9_ReferentialIntegrity ==
    \A i \in 1..Len(assets) :
        /\ \E u \in users : u.id = assets[i].owner_id
        /\ \E j \in 1..Len(types) : types[j].id = assets[i].asset_type

\* C9 witness: two assets of different owners and asset types are stored
C9_Witness ==
    /\ Len(assets) = 2
    /\ assets[1].owner_id # assets[2].owner_id
    /\ assets[1].asset_type # assets[2].asset_type

----------------------------------------------------------------------------
(* Properties of conflicting and repeated registrations *)

\* the request shares its name or its user_namespace with a stored user, and
\* its (name, user_namespace) pair is that of no stored user
ConflictsWithoutMatch(request) ==
    /\ \E u \in users : u.name = request.name
                        \/ u.user_namespace = request.user_namespace
    /\ \A u \in users : ~ ( u.name = request.name
                            /\ u.user_namespace = request.user_namespace )

\* C11: register_user whose name or user_namespace is that of a stored user,
\* while no stored user has the pair, is not answered at the pre-check; its
\* insert ends with a logged 500 carrying a non-empty detail, and the stored
\* users are unchanged.
C11_UserConflictIs500 ==
    [][ /\ \A p \in DOMAIN pc :
              ( /\ pc[p] = "ru_insert" /\ pc'[p] = "idle"
                /\ ConflictsWithoutMatch(req[p]) ) =>
                    /\ out'.op = "register_user" /\ out'.request = req[p]
                    /\ out'.status = 500
                    /\ out'.handled /\ out'.logged
                    /\ out'.body.detail # ""
                    /\ users' = users
        /\ ( /\ RegisterUserAnsweredAtQuery
             /\ ConflictsWithoutMatch(out'.request) ) =>
                /\ out'.status \notin {200, 201}
                /\ users' = users
      ]_vars

\* C11 witness: a request with a stored namespace and a new name was answered
\* with the 500 of the constraint violation
C11_Witness ==
    /\ out.op = "register_user" /\ out.status = 500 /\ out.handled
    /\ out.body.detail = "IntegrityError"
    /\ \E u \in users : /\ u.user_namespace = out.request.user_namespace
                        /\ u.name # out.request.name

\* two stored rows register_asset made from identical request fields
SameRequestFields(a, b) ==
    /\ a.owner_id = b.owner_id /\ a.asset_type = b.asset_type
    /\ a.local_id = b.local_id /\ a.description = b.description

\* C12: every successful register_asset appends exactly one row with an id no
\* stored asset has; two assets registered with identical fields differ in id
\* and in topio_id; with valid references the call succeeds (storage failures
\* aside).
C12_RegisterAssetAlwaysInserts ==
    [][ /\ (out'.op = "register_asset" /\ out'.status = 200) =>
              /\ Len(assets') = Len(assets) + 1
              /\ \A i \in 1..Len(assets) : assets'[i] = assets[i]
              /\ \A i \in 1..Len(assets) : assets[i].id # out'.body.id
              /\ assets'[Len(assets')].id = out'.body.id
        /\ ( /\ out'.op = "register_asset"
             /\ \E u \in users : u.id = out'.request.owner_id
             /\ \E i \in 1..Len(types) : types[i].id = out'.request.asset_type ) =>
                \/ out'.status = 200
                \/ out'.status = 500 /\ out'.body.detail = "OperationalError"
        /\ (out'.op = "register_asset" /\ out'.status = 200) =>
              \A i \in 1..Len(assets) :
                  SameRequestFields(assets[i], out'.body) =>
                      /\ assets[i].id # out'.body.id
                      /\ TopioAsset(assets[i]).topio_id # out'.body.topio_id
      ]_vars

\* C12 witness: a second registration with the fields of a stored asset has
\* succeeded, and both rows are stored
C12_Witness ==
    /\ out.op = "register_asset" /\ out.status = 200
    /\ Len(assets) = 2
    /\ SameRequestFields(assets[1], assets[2])
    /\ assets[2].id = out.body.id

\* C13: no two stored assets with a local_id have the same owner_id,
\* asset_type and local_id.
C13_LocalIdUniquePerOwnerAndType ==
    \A i, j \in 1..Len(assets) :
        ( /\ i # j
          /\ assets[i].local_id # Null
          /\ assets[i].owner_id = assets[j].owner_id
          /\ assets[i].asset_type = assets[j].asset_type ) =>
            assets[i].local_id # assets[j].local_id

----------------------------------------------------------------------------
(* Properties of the two resolvers *)

\* the stored assets matching all three fields of a get_topio_id request
MatchingAssets(request) ==
    { i \in 1..Len(assets) :
        /\ assets[i].owner_id = request.owner_id
        /\ assets[i].asset_type = request.asset_type
        /\ assets[i].local_id = request.local_id }

\* C14: get_topio_id answers 404 when no stored asset or more than one stored
\* asset matches owner_id, asset_type and local_id, and answers with an
\* identifier only when exactly one matches (requests without local_id and
\* storage failures aside).
C14_ResolveTopioIdNeedsOneMatch ==
    ( /\ out.op = "get_topio_id"
      /\ out.request.local_id # Null
      /\ out.status # 500 ) =>
        /\ (out.status = 200) <=> (Cardinality(MatchingAssets(out.request)) = 1)
        /\ (out.status = 404) <=> (Cardinality(MatchingAssets(out.request)) # 1)

\* C15: get_topio_id without local_id or with the empty string as local_id is
\* answered with a client error and never with an identifier (storage
\* failures aside).
C15_EmptyLocalIdRejected ==
    ( /\ out.op = "get_topio_id"
      /\ out.request.local_id \in { Null, <<>> }
      /\ out.status # 500 ) =>
        /\ out.status \in 400..499
        /\ out.body \notin { topio_id(assets[i]) : i \in 1..Len(assets) }

\* C16: get_custom_id with the topio_id of a stored asset that has no local_id
\* answers 404 (storage failures aside), and get_users_assets of the owner
\* lists every such asset.
C16_NoLocalIdIsNotFound ==
    /\ ( /\ out.op = "get_custom_id"
         /\ out.status # 500
         /\ \E i \in 1..Len(assets) :
               /\ assets[i].local_id = Null
               /\ topio_id(assets[i]) # Null
               /\ topio_id(assets[i]) = out.request.topio_id ) =>
            out.status = 404
    /\ ( out.op = "get_users_assets" /\ out.status = 200 ) =>
          \A i \in 1..Len(assets) :
              ( /\ assets[i].local_id = Null
                /\ assets[i].owner_id = out.request.user_id ) =>
                  \E k \in 1..Len(out.body) : out.body[k] = TopioAsset(assets[i])

----------------------------------------------------------------------------
(* Properties of user lookup and of asset type registration *)

\* C17: a user that register_user returned (200 or 201) carries the name and
\* user_namespace of the request and stays stored, and get_user_info of the id
\* of a stored user, after any other operations, answers 200 with that id,
\* name and user_namespace (storage failures aside).
C17_GetUserAfterRegister ==
    [][ /\ \A u \in users : u \in users'
        /\ (out'.op = "register_user" /\ out'.status \in {200, 201}) =>
              /\ out'.body \in users'
              /\ out'.body.name = out'.request.name
              /\ out'.body.user_namespace = out'.request.user_namespace
              /\ ~ContainsWhitespace(out'.request.user_namespace)
        /\ (out'.op = "get_user_info" /\ out'.status # 500) =>
              \A u \in users' :
                  u.id = out'.request.topio_user_id =>
                      /\ out'.status = 200
                      /\ out'.body.id = u.id
                      /\ out'.body.name = u.name
                      /\ out'.body.user_namespace = u.user_namespace
      ]_vars

\* C17 witness: the first registered user was looked up after a second user
\* had been registered
C17_Witness ==
    /\ out.op = "get_user_info" /\ out.status = 200
    /\ out.request.topio_user_id = 1
    /\ Cardinality(users) = 2

\* a handler step that answered a register_asset_type request at its
\* pre-check: the call started and ended within this step
RegisterAssetTypeAnsweredAtQuery ==
    /\ out = NoResponse
    /\ pc' = pc
    /\ out'.op = "register_asset_type"

\* the stored asset types with the given id
TypesWithId(rows, id) == { i \in 1..Len(rows) : rows[i].id = id }

\* C18: register_asset_type with the (id, description) of a stored asset type,
\* a null description included, answers 200 with the stored row and writes
\* nothing; one row with that id is stored; such a request never goes on to
\* the insert; 201 is answered only for a row that was not stored (storage
\* failures aside).
C18_RegisterAssetTypeIdempotent ==
    [][ /\ \A i \in 1..Len(types) :
              /\ ( /\ RegisterAssetTypeAnsweredAtQuery
                   /\ out'.status # 500
                   /\ out'.request.id = types[i].id
                   /\ out'.request.description = types[i].description ) =>
                      /\ out'.status = 200
                      /\ out'.body = types[i]
                      /\ types' = types
                      /\ Cardinality(TypesWithId(types', out'.request.id)) = 1
              /\ \A p \in DOMAIN pc :
                    (pc[p] = "idle" /\ pc'[p] = "rat_insert") =>
                        ~ ( req'[p].id = types[i].id
                            /\ req'[p].description = types[i].description )
        /\ (out'.op = "register_asset_type" /\ out'.status = 201) =>
              /\ TypesWithId(types, out'.request.id) = {}
              /\ types' = Append(types, out'.body)
              /\ out'.body.id = out'.request.id
              /\ out'.body.description = out'.request.description
      ]_vars

\* C18 witness: a second call with a stored id and a null description was
\* answered 200
C18_Witness ==
    /\ out.op = "register_asset_type" /\ out.status = 200
    /\ out.request.description = Null
    /\ \E i \in 1..Len(types) : types[i] = out.body /\ types[i].description = Null

\* the request has the id of a stored asset type and another description
DifferentDescriptionStored(request) ==
    \E i \in 1..Len(types) : /\ types[i].id = request.id
                             /\ types[i].description # request.description

\* C19: register_asset_type with the id of a stored asset type and another
\* description is not answered with success at the pre-check; its insert ends
\* with a logged 500 carrying a non-empty detail and writes nothing; stored
\* asset types are never changed and no id is stored twice.
C19_AssetTypeConflictIs500 ==
    [][ /\ \A p \in DOMAIN pc :
              ( /\ pc[p] = "rat_insert" /\ pc'[p] = "idle"
                /\ DifferentDescriptionStored(req[p]) ) =>
                    /\ out'.op = "register_asset_type" /\ out'.request = req[p]
                    /\ out'.status = 500
                    /\ out'.handled /\ out'.logged
                    /\ out'.body.detail # ""
                    /\ types' = types
        /\ ( /\ RegisterAssetTypeAnsweredAtQuery
             /\ DifferentDescriptionStored(out'.request) ) =>
                /\ out'.status \notin {200, 201}
                /\ types' = types
        /\ Len(types') >= Len(types)
        /\ \A i \in 1..Len(types) : types'[i] = types[i]
        /\ \A i, j \in 1..Len(types') : types'[i].id = types'[j].id => i = j
      ]_vars

\* C19 witness: the insert of a stored id with another description was
\* answered with the 500 of the primary key violation
C19_Witness ==
    /\ out.op = "register_asset_type" /\ out.status = 500
    /\ out.body.detail = "IntegrityError"
    /\ DifferentDescriptionStored(out.request)

\* C20: register_asset_type with whitespace in the id answers 422 and writes
\* no row; no such request goes on to the insert, and no stored asset type id
\* contains whitespace.
C20_WhitespaceTypeIdRejected ==
    [][ /\ ( /\ out'.op = "register_asset_type"
             /\ ContainsWhitespace(out'.request.id) ) =>
                /\ out'.status = 422
                /\ types' = types
        /\ \A p \in DOMAIN pc :
              pc'[p] = "rat_insert" => ~ContainsWhitespace(req'[p].id)
        /\ \A i \in 1..Len(types') : ~ContainsWhitespace(types'[i].id)
      ]_vars

\* C20 witness: such a request was rejected while an asset type is stored
C20_Witness ==
    /\ out.op = "register_asset_type" /\ out.status = 422
    /\ ContainsWhitespace(out.request.id)
    /\ Len(types) > 0

----------------------------------------------------------------------------
(* Properties of the lookups and of failure handling *)

\* the stored assets of the given owner
AssetsOfOwner(user_id) == { i \in 1..Len(assets) : assets[i].owner_id = user_id }

\* C21: get_users_assets answers 200 with exactly the stored assets of the
\* owner, each once and none of another owner, each with the topio_id
\* topio.{owner namespace}.{id}.{asset_type}; for an owner without assets or
\* an unknown owner id the list is empty (storage failures aside).
C21_ListAssetsForOwner ==
    ( out.op = "get_users_assets" /\ out.status # 500 ) =>
        /\ out.status = 200
        /\ Len(out.body) = Cardinality(AssetsOfOwner(out.request.user_id))
        /\ \A i \in AssetsOfOwner(out.request.user_id) :
              \E k \in 1..Len(out.body) :
                  /\ out.body[k].id = assets[i].id
                  /\ out.body[k].local_id = assets[i].local_id
                  /\ out.body[k].asset_type = assets[i].asset_type
                  /\ out.body[k].description = assets[i].description
        /\ \A k \in 1..Len(out.body) :
              /\ out.body[k].owner_id = out.request.user_id
              /\ \E i \in AssetsOfOwner(out.request.user_id) :
                    out.body[k].id = assets[i].id
              /\ out.body[k].topio_id =
                    ExpectedTopioId(UserWithId(out.request.user_id).user_namespace,
                                    out.body[k].id, out.body[k].asset_type)
        /\ \A k, l \in 1..Len(out.body) : out.body[k].id = out.body[l].id => k = l
        /\ ( ~ \E u \in users : u.id = out.request.user_id ) => out.body = <<>>

\* C21 witness: the one asset of an owner was listed while another owner has
\* an asset too
C21_Witness ==
    /\ out.op = "get_users_assets" /\ out.status = 200
    /\ Len(out.body) = 1
    /\ Len(assets) = 2
    /\ assets[1].owner_id # assets[2].owner_id

\* C22: get_user_info answers 404 exactly when no stored user has the id, and
\* get_asset_namespace_info answers 404 exactly when no stored asset type has
\* the id; otherwise each answers 200 with the stored row (storage failures
\* aside).
C22_NotFoundExactlyWhenAbsent ==
    /\ ( out.op = "get_user_info" /\ out.status # 500 ) =>
          IF \E u \in users : u.id = out.request.topio_user_id
          THEN /\ out.status = 200
               /\ out.body \in users
               /\ out.body.id = out.request.topio_user_id
          ELSE out.status = 404
    /\ ( out.op = "get_asset_namespace_info" /\ out.status # 500 ) =>
          IF \E i \in 1..Len(types) : types[i].id = out.request.topio_asset_type_id
          THEN /\ out.status = 200
               /\ \E i \in 1..Len(types) : types[i] = out.body
               /\ out.body.id = out.request.topio_asset_type_id
          ELSE out.status = 404

\* C22 witness: an asset type id that is not stored was answered 404 while
\* another asset type is stored
C22_Witness ==
    /\ out.op = "get_asset_namespace_info" /\ out.status = 404
    /\ Len(types) > 0

\* C23: get_asset_types answers with all stored asset types, each once, in
\* the order in which they were registered (storage failures aside).
C23_ListAssetTypesInCreationOrder ==
    ( out.op = "get_asset_types" /\ out.status # 500 ) =>
        /\ out.status = 200
        /\ out.body = types

\* C24: a storage failure in any handler is logged and answered as a handled
\* 500 with a non-empty detail; no 500 leaves a handler unlogged or as an
\* exception nobody caught.
C24_StorageFailureLoggedAndHandled ==
    ( out.op # "none" /\ out.status = 500 ) =>
        /\ out.handled
        /\ out.logged
        /\ out.body.detail # ""

----------------------------------------------------------------------------
(* Properties of the identifier functions *)

\* four fields, the first of them the tag, the third read by int()
WellFormedTopioId(s) ==
    LET fields == Split(s, ".")
    IN /\ Len(fields) = 4
       /\ fields[1] = <<"t", "o", "p", "i", "o">>
       /\ python_int_accepts(fields[3])

\* C25: topio_id_to_parts returns exactly for the strings with four fields
\* between dots, the first field 'topio' and the third an integer; for every
\* other string it raises.
C25_DecodeRejectsMalformed ==
    codec.stage = "done" =>
        ( codec.result.raised = "" <=> WellFormedTopioId(codec.topio_id) )

\* non-empty, and free of whitespace and of the separator
PlainField(s) ==
    /\ Len(s) > 0
    /\ \A i \in 1..Len(s) : s[i] \notin {" ", "\t", "\n", "."}

\* C26: for a non-empty owner_namespace and asset_type without whitespace and
\* without '.', and a non-negative asset id, topio_id_to_parts of the
\* identifier built from them returns (asset id, asset_type, owner_namespace).
C26_CodecRoundTrip ==
    ( /\ codec.stage = "done"
      /\ codec.parts # NoParts
      /\ PlainField(codec.parts.owner_namespace)
      /\ PlainField(codec.parts.asset_type)
      /\ codec.parts.asset_id >= 0 ) =>
        /\ codec.result.raised = ""
        /\ codec.result.value = << codec.parts.asset_id,
                                   codec.parts.asset_type,
                                   codec.parts.owner_namespace >>

\* C26 witness: an identifier with a two-digit id, built from a namespace and
\* a type that differ, was taken apart again
C26_Witness ==
    /\ codec.stage = "done"
    /\ codec.parts.asset_id >= 10
    /\ PlainField(codec.parts.owner_namespace)
    /\ PlainField(codec.parts.asset_type)
    /\ codec.parts.owner_namespace # codec.parts.asset_type
    /\ codec.result.raised = ""

----------------------------------------------------------------------------
(* Properties of stored rows over time *)

\* C27: no step deletes a user, asset type or asset row or changes one of its
\* attributes, and the topio_id derived for a stored asset, which is the one
\* its registration answered with, is the same after every step.
C27_RowsAndIdentifiersPersist ==
    [][ /\ \A u \in users : u \in users'
        /\ Len(types') >= Len(types)
        /\ \A i \in 1..Len(types) : types'[i] = types[i]
        /\ Len(assets') >= Len(assets)
        /\ \A i \in 1..Len(assets) :
              /\ assets'[i] = assets[i]
              /\ topio_id(assets[i])' = topio_id(assets[i])
        /\ (out'.op = "register_asset" /\ out'.status = 200) =>
              out'.body.topio_id = topio_id(assets[Len(assets)])'
      ]_vars

\* C27 witness: a user was registered after an asset had been stored
C27_Witness ==
    /\ out.op = "register_user" /\ out.status = 201
    /\ Len(assets) > 0
    /\ out.body.id # assets[1].owner_id

C29_ErrorsBeforeAnyWrite ==
    [][ ( /\ out'.op \in {"register_user", "register_asset_type", "register_asset"}
          /\ out'.status \in {400, 422} ) =>
            /\ users' = users /\ types' = types /\ assets' = assets
            /\ userSeq' = userSeq /\ assetSeq' = assetSeq
      ]_vars

\* C30: the string a successful get_topio_id returns is the topio_id of a
\* stored asset with the owner_id, asset_type and local_id of the request, and
\* is the identifier of no asset without local_id or of another owner or type.
C30_ResolveTopioIdSound ==
    ( out.op = "get_topio_id" /\ out.status = 200 ) =>
        /\ \E i \in 1..Len(assets) :
              /\ topio_id(assets[i]) = out.body
              /\ assets[i].owner_id = out.request.owner_id
              /\ assets[i].asset_type = out.request.asset_type
              /\ assets[i].local_id = out.request.local_id
        /\ \A i \in 1..Len(assets) :
              topio_id(assets[i]) = out.body =>
                  /\ assets[i].local_id # Null
                  /\ assets[i].owner_id = out.request.owner_id
                  /\ assets[i].asset_type = out.request.asset_type

----------------------------------------------------------------------------
(* Frame of the lookups *)

\* the six handlers that only read
LookupOps ==
    { "get_user_info", "get_asset_namespace_info", "get_asset_types",
      "get_topio_id", "get_custom_id", "get_users_assets" }

\* C31: a step of one of the six lookups, whether it answers with a result,
\* with 404 or 422, or with the 500 of a storage failure, leaves the stored
\* users, asset types and assets, and the id sequences, as they were.
C31_LookupsWriteNothing ==
    [][ out'.op \in LookupOps =>
            /\ users' = users
            /\ types' = types
            /\ assets' = assets
            /\ userSeq' = userSeq /\ assetSeq' = assetSeq
      ]_vars

\* C31 witness: a lookup of a user id that is not stored was answered 404
\* while users, asset types and assets are stored
C31_Witness ==
    /\ out.op = "get_user_info" /\ out.status = 404
    /\ users # {} /\ Len(types) > 0 /\ Len(assets) > 0

====
